---- MODULE Spec2Model ----
(***************************************************************************)
(* The bisection driver of pkg/bisect/bisect.go as a state machine.        *)
(*                                                                         *)
(* One session of runImpl is modelled: the driver is single threaded, so   *)
(* pc is its position and every action is one stretch of code between two  *)
(* calls of an external collaborator (VCS adapter, builder, test runner,   *)
(* config minimizer, bisect oracle).  What a collaborator answers is an    *)
(* input of the action, drawn from a small set.                            *)
(*                                                                         *)
(* The history is linear: revisions are 0..MaxRev, the parent of r is r-1  *)
(* and the branch tip is MaxRev.  A revision's hash is its number.         *)
(***************************************************************************)
EXTENDS Integers, Sequences, FiniteSets, TLC

VARIABLES
    \* ---- Config (cfg), fixed for the session
    fix,            \* cfg.Fix
    baseline,       \* len(cfg.Kernel.BaselineConfig) != 0
    kcommit,        \* cfg.Kernel.Commit (rewritten by identifyRewrittenCommit)
    timeout,        \* cfg.Timeout (0: none)
    titleRev,       \* what cfg.Kernel.CommitTitle resolves to (NoTitle: empty title),
                    \* once identifyRewrittenCommit has read it (Unread before)
    \* ---- the world the collaborators live in
    pure,           \* TRUE: no collaborator fails and the reproducer is deterministic
    intro,          \* pure world: the commit that introduces the crash
    fixedAt,        \* pure world: the commit that removes the crash
    tree,           \* the revision checked out in the working tree (repo.HeadCommit())
    \* ---- env
    pc,
    head,           \* env.head
    commit,         \* env.commit
    kernelConfig,   \* env.kernelConfig
    numTests,       \* env.numTests
    flaky,          \* env.flaky
    \* ---- locals of bisect(), minimizeConfig(), commitRange*()
    testRes,        \* bisect: testRes
    testResults,    \* minimizeConfig: testResults, keyed by the config
    minCalls,       \* predMinimize calls made so far
    tags,           \* commitRangeForCause: tags
    results1,       \* commitRange*: results
    bad, good,      \* commitRange*: the range
    results,        \* bisect: results, keyed by the hash
    \* ---- the bisect oracle's search state
    obad, ogood, oskip,
    \* ---- what runImpl returns
    outcome,
    \* ---- history: the last env.test() call, the last checkout, the gate
    last,
    lastSwitch,
    gateVerdict,
    minimized,      \* the config Minimize answered and the verdict recorded for it
    noopPass        \* detectNoopChange: the culprit's parent and the build of it

vars == <<fix, baseline, timeout, kcommit, titleRev, pure, intro, fixedAt, tree, pc, head,
          commit, kernelConfig, numTests, flaky, testRes, testResults, minCalls,
          tags, results1, bad, good, results, obad, ogood, oskip, outcome,
          last, lastSwitch, gateVerdict, minimized, noopPass>>

----------------------------------------------------------------------------
\* Bounds of the model.

\* The history is 0..MaxRev.
MaxRev == 2
\* The minimizer calls its predicate at most this often.
MaxMinimizeCalls == 1
\* The minimizer tries and returns configs 1..NumCandidates (0 is the full config).
NumCandidates == 1

\* Program constant.
MaxNumTests == 20

----------------------------------------------------------------------------
\* Values.

Revs == 0..MaxRev
Tip == MaxRev
None == -1          \* a nil *vcs.Commit, an absent hash
NoTitle == -2       \* cfg.Kernel.CommitTitle == ""
Unread == -3        \* cfg.Kernel.CommitTitle was not read
Gone == MaxRev + 1  \* a hash the branch no longer contains

BisectGood == "good"
BisectBad == "bad"
BisectSkip == "skip"

FullConfig == 0
Candidates == 1..NumCandidates
Configs == 0..NumCandidates

NoRep == [kind |-> "nil", at |-> None]
CrashRep(h) == [kind |-> "crash", at |-> h]
\* Mutant: a failed build leaves no report.
BuildFailRepNone(h) == [kind |-> "nil", at |-> None]

BuildFailRep(h) == [kind |-> "failed building", at |-> h]
TestFailRep(h) == [kind |-> "failed testing reproducer", at |-> h]

\* A nil *testResult.
NoRes == [verdict |-> "none", com |-> None, rep |-> NoRep, kernelSign |-> ""]

\* What runImpl returns: kind "result" is (*Result, nil), "error" and "infra" are
\* (nil, err), "panic" is a nil dereference, "none" is not returned yet.
NoOutcome == [kind |-> "none", msg |-> "", Commits |-> <<>>, Commit |-> None,
              Report |-> NoRep, Config |-> None, NoopChange |-> FALSE,
              IsRelease |-> FALSE]
Failure(k, m) == [NoOutcome EXCEPT !.kind = k, !.msg = m]

\* No culprit was looked at: no parent, no build of it.
NoNoopPass == [parent |-> None, build |-> "none", sign |-> ""]

NoLast == [seq |-> 0, site |-> "none", rev |-> None, config |-> None, asked |-> 0,
           nbad |-> 0, ngood |-> 0, ninfra |-> 0, total |-> 0, runner |-> "none",
           build |-> "none", verdict |-> "none", ret |-> "none", err |-> "nil"]

----------------------------------------------------------------------------
\* What the collaborators may answer.  In the pure world nothing fails.

Oks == IF pure THEN {TRUE} ELSE BOOLEAN

\* The budgets a session may be given, and what the clock may read when a test
\* cycle starts (time.Since(env.startTime)).
Timeouts == {0, 1}
Elapsed == {0, 1, 2}

\* Mutant: a zero budget is a budget of no time at all.
TimedOutAtZero(timeout_, elapsed) == elapsed > timeout_

\* env.test: is the session over its budget?
TimedOut(timeout_, elapsed) == timeout_ # 0 /\ elapsed > timeout_

Lates == IF pure THEN {FALSE} ELSE {TimedOut(timeout, e) : e \in Elapsed}
Signatures == {"A"}

\* Is the reproducer crashing on revision r, in the pure world?
Crashes(r) == intro <= r /\ r < fixedAt

\* env.build() outcomes: current == nil, a failed build, a built kernel.
BuildOutcomes ==
    IF pure THEN {[kind |-> "ok", sign |-> s] : s \in Signatures}
    ELSE {[kind |-> "nohead", sign |-> ""], [kind |-> "fail", sign |-> ""]}
         \cup {[kind |-> "ok", sign |-> s] : s \in Signatures}

\* The shapes of what inst.Test returns for n requested trials ("runnererr": an
\* error instead of trials).
AllProfiles == {"clean", "crash", "flaky", "boot", "half", "storm"}

ProfileNames(r) ==
    IF pure THEN (IF Crashes(r) THEN {"crash"} ELSE {"clean"})
    ELSE AllProfiles \cup {"runnererr"}

\* The answers of the clock, the builder and the test runner to one env.test()
\* on revision r: an answer that is never asked for is not varied.
TestAnswers(r) ==
    LET built == {b \in BuildOutcomes : b.kind = "ok"}
        broken == {b \in BuildOutcomes : b.kind # "ok"}
    IN {[late |-> l, b |-> b, p |-> "none"] : l \in Lates \ {FALSE}, b \in {CHOOSE x \in built : TRUE}}
       \cup {[late |-> FALSE, b |-> b, p |-> "none"] : b \in broken}
       \cup {[late |-> FALSE, b |-> b, p |-> p] : b \in built, p \in ProfileNames(r)}

\* The answers to a checkout of r followed by one env.test().
SwitchAnswers(r) ==
    {[switchOK |-> FALSE, t |-> CHOOSE a \in TestAnswers(r) : TRUE] : ok \in Oks \ {TRUE}}
    \cup {[switchOK |-> TRUE, t |-> a] : a \in TestAnswers(r)}

Rep(x, k) == [i \in 1..k |-> x]

Trials(p, n) ==
    LET h == n \div 2 IN
    CASE p = "clean" -> Rep("ok", n)
      [] p = "crash" -> Rep("crash", n)
      [] p = "flaky" -> Rep("crash", 3) \o Rep("ok", n - 3)
      [] p = "boot" -> Rep("boot", h) \o Rep("basic", n - h)
      [] p = "half" -> Rep("infra", h) \o Rep("crash", n - h)
      [] p = "storm" -> Rep("infra", h) \o <<"other", "crash">> \o Rep("ok", n - h - 2)
      [] OTHER -> <<>>

----------------------------------------------------------------------------
\* env.processResults: the tally of the trials.

\* Mutant: a boot failure counts as a clean run.
TrialCountsBootGood(res) ==
    CASE res \in {"ok", "boot"} -> "good"
      [] res = "infra" -> "infra"
      [] res = "basic" -> "nothing"
      [] res = "crash" -> "bad"
      [] OTHER -> "infra"

\* What one trial counts as: res.Error == nil is good, a TestError is infra if
\* marked so and nothing otherwise (boot, basic), a CrashError is bad, any
\* other error is infra.
TrialCounts(res) ==
    CASE res = "ok" -> "good"
      [] res = "infra" -> "infra"
      [] res \in {"boot", "basic"} -> "nothing"
      [] res = "crash" -> "bad"
      [] OTHER -> "infra"

processResults(results_) ==
    LET Count(c) == Cardinality({i \in 1..Len(results_) : TrialCounts(results_[i]) = c})
    IN [bad |-> Count("bad"), good |-> Count("good"), infra |-> Count("infra"),
        rep |-> IF Count("bad") > 0 THEN "crash" ELSE "nil"]

\* processResults on each shape of trials, for the two numbers of trials env.test
\* asks for (computed once).
TallyTable ==
    [p \in AllProfiles |->
        [n \in {MaxNumTests \div 2, (MaxNumTests \div 2) * 2} |->
            processResults(Trials(p, n))
                @@ [total |-> Len(Trials(p, n))]]]

\* The tally of the trials of shape p on revision current: the counts, the number
\* of trials returned and the representative report.
Tally(current, p, n) ==
    LET t == TallyTable[p][n]
    IN [bad |-> t.bad, good |-> t.good, infra |-> t.infra, total |-> t.total,
        rep |-> IF t.rep = "crash" THEN CrashRep(current) ELSE NoRep]

\* Mutant: the first test of the session is not doubled.
TrialCountFlakyOnly(fl, nt) ==
    IF fl THEN (MaxNumTests \div 2) * 2 ELSE MaxNumTests \div 2

\* env.test: the number of trials requested.
TrialCount(fl, nt) ==
    IF fl \/ nt = 0 THEN (MaxNumTests \div 2) * 2 ELSE MaxNumTests \div 2

\* Mutant: half of the runs is enough.
InfraStormAtHalf(infra, n) == infra >= n \div 2

\* env.test: more than half of the runs failed with an infrastructure error.
InfraStorm(infra, n) == infra > n \div 2

\* Mutant: the comparison is the wrong way round.
SeemsFlakyReversed(fl, nbad, ngood) == ~fl /\ ngood < nbad

\* env.test: the reproducer seems to be flaky.
SeemsFlaky(fl, nbad, ngood) == ~fl /\ nbad < ngood

\* env.test() from the call of inst.Test on: n trials were asked for, and t is
\* the tally of the trials returned.
testBuilt(cur, b, p, n, t) ==
    LET skip == [verdict |-> BisectSkip, com |-> cur, rep |-> NoRep, kernelSign |-> b.sign]
        ran == [res |-> skip, err |-> "nil", numTests |-> numTests + 1, flaky |-> flaky,
                asked |-> n, nbad |-> 0, ngood |-> 0, ninfra |-> 0, total |-> 0,
                runner |-> "none", build |-> b.kind]
        told == [ran EXCEPT !.nbad = t.bad, !.ngood = t.good, !.ninfra = t.infra,
                            !.total = t.total, !.runner = "ok"]
    IN
    IF p = "runnererr" THEN
        [ran EXCEPT !.err = "infra", !.runner = "failed"]
    ELSE IF InfraStorm(t.infra, t.total) THEN
        [told EXCEPT !.res = [skip EXCEPT !.rep = t.rep], !.err = "infra"]
    ELSE IF t.bad # 0 THEN
        [told EXCEPT !.res = [skip EXCEPT !.verdict = BisectBad, !.rep = t.rep],
                     !.flaky = flaky \/ SeemsFlaky(flaky, t.bad, t.good)]
    ELSE IF t.good # 0 THEN
        [told EXCEPT !.res = [skip EXCEPT !.verdict = BisectGood, !.rep = t.rep]]
    ELSE
        [told EXCEPT !.res = [skip EXCEPT !.rep = TestFailRep(cur)]]

(***************************************************************************)
(* env.test() on the checked out revision cur, with the answers of the     *)
(* clock (late), the builder (b) and the test runner (p).  The result is   *)
(* the returned *testResult (res) and error (err), env.numTests and        *)
(* env.flaky after the call, and the tally for the history.                *)
(***************************************************************************)
test(cur, late, b, p) ==
    LET blank == [res |-> NoRes, err |-> "nil", numTests |-> numTests, flaky |-> flaky,
                  asked |-> 0, nbad |-> 0, ngood |-> 0, ninfra |-> 0, total |-> 0,
                  runner |-> "none", build |-> "none"]
        skip == [verdict |-> BisectSkip, com |-> cur, rep |-> NoRep, kernelSign |-> b.sign]
    IN
    IF late THEN [blank EXCEPT !.err = "timeout"]
    ELSE IF b.kind = "nohead" THEN
        [blank EXCEPT !.res = [skip EXCEPT !.com = None], !.err = "nohead",
                      !.build = b.kind]
    ELSE IF b.kind = "fail" THEN
        [blank EXCEPT !.res = [skip EXCEPT !.rep = BuildFailRep(cur)], !.build = b.kind]
    ELSE testBuilt(cur, b, p, TrialCount(flaky, numTests),
                   Tally(cur, p, TrialCount(flaky, numTests)))

\* The error runImpl returns for an error of env.test().
TestFailure(err) ==
    IF err = "infra" THEN Failure("infra", "infra error")
    ELSE IF err = "timeout" THEN Failure("error", "bisection is taking too long")
    ELSE Failure("error", "couldn't get repo HEAD")

\* The history record of an env.test() call made at site, which answered tr and
\* whose caller passed on the verdict ret.
Record(site, cur, config, tr, ret) ==
    [seq |-> last.seq + 1, site |-> site, rev |-> cur, config |-> config,
     asked |-> tr.asked, nbad |-> tr.nbad, ngood |-> tr.ngood, ninfra |-> tr.ninfra,
     total |-> tr.total, runner |-> tr.runner, build |-> tr.build,
     verdict |-> IF tr.err = "nil" THEN tr.res.verdict ELSE "none",
     ret |-> IF tr.err = "nil" THEN ret ELSE "none",
     err |-> tr.err]

----------------------------------------------------------------------------
\* Init: Run has checked out the branch; runImpl starts.

InitSession ==
    /\ tree = Tip
    /\ pc = "runImpl"
    /\ head = None
    /\ commit = None
    /\ kernelConfig = None
    /\ numTests = 0
    /\ flaky = FALSE
    /\ testRes = NoRes
    /\ testResults = [c \in Configs |-> NoRes]
    /\ minCalls = 0
    /\ tags = <<>>
    /\ results1 = <<>>
    /\ bad = None
    /\ good = None
    /\ results = [r \in Revs |-> NoRes]
    /\ obad = None
    /\ ogood = None
    /\ oskip = {}
    /\ outcome = NoOutcome
    /\ last = NoLast
    /\ lastSwitch = [to |-> Tip, ok |-> TRUE]
    /\ gateVerdict = "none"
    /\ minimized = [config |-> None, verdict |-> "none"]
    /\ noopPass = NoNoopPass

Init ==
    /\ fix \in BOOLEAN
    /\ baseline \in BOOLEAN
    /\ timeout \in Timeouts
    /\ kcommit \in Revs \cup {Gone}
    /\ titleRev = Unread
    /\ pure = FALSE
    /\ intro = 0
    /\ fixedAt = 0
    /\ InitSession

\* The pure world of the polarity-symmetry law: a linear history in which intro
\* introduces the crash and fixedAt (MaxRev + 1: never) removes it, a session
\* started on a crashing revision and, in fix mode, a fixed head.
InitPure ==
    /\ fix \in BOOLEAN
    /\ baseline \in BOOLEAN
    /\ timeout = 0
    /\ pure = TRUE
    /\ intro \in Revs
    /\ fixedAt \in (intro + 1)..(MaxRev + 1)
    /\ kcommit \in {r \in Revs : Crashes(r)}
    /\ fix => fixedAt <= Tip
    /\ titleRev = Unread
    /\ InitSession

----------------------------------------------------------------------------
\* runImpl, up to the call of env.bisect(): the capabilities of the repo, the
\* recorded head and the deferred restoration of it.

Caps == IF pure THEN {"all"} ELSE {"all", "nobisecter", "nominimizer"}

RunImpl ==
    /\ pc = "runImpl"
    /\ \E cap \in Caps, headOK \in Oks :
        LET failed == \/ cap = "nobisecter"
                      \/ cap = "nominimizer" /\ baseline
                      \/ ~headOK
        IN /\ head' = IF failed THEN None ELSE tree
           /\ pc' = IF failed THEN "done" ELSE "bisect"
           /\ outcome' = IF failed THEN Failure("error", "runImpl") ELSE outcome
    /\ UNCHANGED <<noopPass, timeout, fix, baseline, kcommit, titleRev, pure, intro, fixedAt, tree,
                   commit, kernelConfig, numTests, flaky, testRes, testResults,
                   minCalls, tags, results1, bad, good, results, obad, ogood, oskip,
                   last, lastSwitch, gateVerdict, minimized>>

----------------------------------------------------------------------------
\* env.identifyRewrittenCommit, with the answers of CheckoutBranch, Contains and
\* GetCommitByTitle: the hash to start from, and whether it is an error.

\* Mutant: the commit found by the title does not replace the stored hash.
identifyRewrittenCommitKeepsHash(title, branchOK, containsOK, titleOK) ==
    IF ~branchOK THEN [hash |-> kcommit, err |-> TRUE, read |-> FALSE]
    ELSE IF ~containsOK \/ kcommit \in Revs THEN
        [hash |-> kcommit, err |-> ~containsOK, read |-> FALSE]
    ELSE IF title = NoTitle THEN [hash |-> kcommit, err |-> TRUE, read |-> TRUE]
    ELSE IF ~titleOK \/ title = None THEN [hash |-> kcommit, err |-> TRUE, read |-> TRUE]
    ELSE [hash |-> kcommit, err |-> FALSE, read |-> TRUE]

\* Mutant: the title is looked up before the hash is.
identifyRewrittenCommitByTitle(title, branchOK, containsOK, titleOK) ==
    IF ~branchOK THEN [hash |-> kcommit, err |-> TRUE, read |-> FALSE]
    ELSE IF title \in Revs /\ titleOK THEN [hash |-> title, err |-> FALSE, read |-> TRUE]
    ELSE [hash |-> kcommit, err |-> ~containsOK \/ kcommit \notin Revs, read |-> TRUE]

\* title is what cfg.Kernel.CommitTitle resolves to: NoTitle for the empty title,
\* None for a title no commit has.  read says whether the title was looked at.
identifyRewrittenCommit(title, branchOK, containsOK, titleOK) ==
    IF ~branchOK THEN [hash |-> kcommit, err |-> TRUE, read |-> FALSE]
    ELSE IF ~containsOK \/ kcommit \in Revs THEN
        [hash |-> kcommit, err |-> ~containsOK, read |-> FALSE]
    ELSE IF title = NoTitle THEN [hash |-> kcommit, err |-> TRUE, read |-> TRUE]
    ELSE IF ~titleOK \/ title = None THEN [hash |-> kcommit, err |-> TRUE, read |-> TRUE]
    ELSE [hash |-> title, err |-> FALSE, read |-> TRUE]

\* The commit titles a session may be started with.
Titles == {NoTitle, None} \cup Revs

Preps == IF pure THEN {"ok"} ELSE {"ok", "PrepareBisect", "Clean", "BuildSyzkaller"}

\* env.bisect, up to the checkout of the starting revision.
Resolve ==
    /\ pc = "bisect"
    /\ \E title \in Titles, prep \in Preps, branchOK \in Oks, containsOK \in Oks,
          titleOK \in Oks, switchOK \in Oks :
        LET id == identifyRewrittenCommit(title, branchOK, containsOK, titleOK)
            reached == prep = "ok"
            switched == reached /\ ~id.err
            ok == switched /\ switchOK
        IN /\ kcommit' = IF reached THEN id.hash ELSE kcommit
           /\ titleRev' = IF reached /\ id.read THEN title ELSE titleRev
           /\ tree' = IF ok THEN id.hash
                      ELSE IF reached /\ branchOK THEN Tip ELSE tree
           /\ lastSwitch' = IF switched THEN [to |-> id.hash, ok |-> switchOK]
                            ELSE IF reached THEN [to |-> Tip, ok |-> branchOK]
                            ELSE lastSwitch
           /\ pc' = IF ok THEN "gate" ELSE "exit"
           /\ outcome' = IF ok THEN outcome
                         ELSE IF ~reached THEN Failure("error", prep)
                         ELSE IF id.err THEN Failure("error", "not reachable")
                         ELSE Failure("error", "SwitchCommit")
    /\ UNCHANGED <<noopPass, timeout, fix, baseline, pure, intro, fixedAt, head,
                   commit, kernelConfig, numTests, flaky, testRes, testResults,
                   minCalls, tags, results1, bad, good, results, obad, ogood, oskip,
                   last, gateVerdict, minimized>>

----------------------------------------------------------------------------
\* env.bisect: the reproducibility gate.

\* Mutant: only a good verdict stops the session.
GatePassesUnlessGood(verdict) == verdict # BisectGood

GatePasses(verdict) == verdict = BisectBad

Gate ==
    /\ pc = "gate"
    /\ \E a \in TestAnswers(tree) :
        LET tr == test(tree, a.late, a.b, a.p)
            passed == tr.err = "nil" /\ GatePasses(tr.res.verdict)
        IN /\ commit' = tree
           /\ kernelConfig' = FullConfig
           /\ numTests' = tr.numTests
           /\ flaky' = tr.flaky
           /\ testRes' = tr.res
           /\ gateVerdict' = IF tr.err = "nil" THEN tr.res.verdict ELSE "error"
           /\ last' = Record("gate", tree, FullConfig, tr, tr.res.verdict)
           /\ pc' = IF ~passed THEN "exit"
                    ELSE IF baseline THEN "minimize" ELSE "range"
           /\ outcome' = IF passed THEN outcome
                         ELSE IF tr.err # "nil" THEN TestFailure(tr.err)
                         ELSE Failure("error", "the crash wasn't reproduced on the original commit")
    /\ UNCHANGED <<noopPass, timeout, fix, baseline, kcommit, titleRev, pure, intro, fixedAt, tree, head,
                   testResults, minCalls, tags, results1, bad, good, results,
                   obad, ogood, oskip, lastSwitch, minimized>>

----------------------------------------------------------------------------
\* env.minimizeConfig.  The minimizer is a black box: it calls predMinimize on
\* the candidates it likes, as often as it likes, and answers a config or an error.

\* predMinimize, called by the minimizer on a candidate.
PredMinimize ==
    /\ pc = "minimize"
    /\ minCalls < MaxMinimizeCalls
    /\ \E cand \in Candidates, a \in TestAnswers(tree) :
        LET tr == test(tree, a.late, a.b, a.p) IN
        /\ kernelConfig' = cand
        /\ numTests' = tr.numTests
        /\ flaky' = tr.flaky
        /\ testResults' = IF tr.err = "nil" THEN [testResults EXCEPT ![cand] = tr.res]
                          ELSE testResults
        /\ last' = Record("minimize", tree, cand, tr, tr.res.verdict)
        /\ pc' = IF tr.err = "nil" THEN "minimize" ELSE "exit"
        /\ outcome' = IF tr.err = "nil" THEN outcome ELSE TestFailure(tr.err)
    /\ minCalls' = minCalls + 1
    /\ UNCHANGED <<noopPass, timeout, fix, baseline, kcommit, titleRev, pure, intro, fixedAt, tree, head,
                   commit, testRes, tags, results1, bad, good, results,
                   obad, ogood, oskip, lastSwitch, gateVerdict, minimized>>

\* What Minimize may answer: a config, or None with an error.
MinimizerAnswers == IF pure THEN Configs ELSE Configs \cup {None}

\* Mutant: the config predMinimize installed last stays the active config.
minimizeConfigKeepsLast(minConfig) ==
    [kernelConfig |-> kernelConfig, testRes1 |-> testResults[minConfig]]

\* minimizeConfig after Minimize answered minConfig: the active config and the
\* *testResult returned to bisect.
minimizeConfig(minConfig) ==
    [kernelConfig |-> minConfig, testRes1 |-> testResults[minConfig]]

MinimizeReturn ==
    /\ pc = "minimize"
    /\ \E minConfig \in MinimizerAnswers :
        LET m == minimizeConfig(minConfig) IN
        IF minConfig = None
        THEN /\ pc' = "exit"
             /\ outcome' = Failure("error", "Minimize")
             /\ UNCHANGED <<kernelConfig, testRes, testResults, minCalls, minimized>>
        ELSE /\ pc' = "range"
             /\ kernelConfig' = m.kernelConfig
             /\ testRes' = IF m.testRes1 # NoRes THEN m.testRes1 ELSE testRes
             /\ testResults' = [c \in Configs |-> NoRes]
             /\ minCalls' = 0
             /\ minimized' = [config |-> minConfig, verdict |-> m.testRes1.verdict]
             /\ UNCHANGED outcome
    /\ UNCHANGED <<noopPass, timeout, fix, baseline, kcommit, titleRev, pure, intro, fixedAt, tree, head,
                   commit, numTests, flaky, tags, results1,
                   bad, good, results, obad, ogood, oskip, last, lastSwitch,
                   gateVerdict>>

----------------------------------------------------------------------------
\* env.commitRange: the range finder and the terminal classification.

\* A Result with no Commits, as validateCommitRange builds it.
Terminal(rep, b) ==
    [NoOutcome EXCEPT !.kind = "result", !.Report = rep, !.Commit = b,
                      !.Config = kernelConfig]

\* env.validateCommitRange: the fatal result or error (NoOutcome: nil, nil).
validateCommitRange(b, g, rs) ==
    IF Len(rs) < 1 THEN Failure("error", "commitRange returned no results")
    ELSE LET finalResult == rs[Len(rs)] IN
         IF finalResult.verdict = BisectBad THEN Terminal(finalResult.rep, b)
         ELSE IF finalResult.verdict = BisectSkip THEN
             IF fix THEN Terminal(finalResult.rep, b)
             ELSE Failure("error", "oldest tested release had kernel build, boot or test errors")
         ELSE NoOutcome

\* env.bisect: the results map before the oracle is called.
RECURSIVE StoreAll(_, _)
StoreAll(m, rs) ==
    IF rs = <<>> THEN m
    ELSE StoreAll([m EXCEPT ![Head(rs).com] = Head(rs)], Tail(rs))

InitialResults(rs) == StoreAll([[r \in Revs |-> NoRes] EXCEPT ![kcommit] = testRes], rs)

\* Mutant: the range has no good end.
FixGoodEndUndefined(verdict) == None

\* env.commitRangeForFix: the good end of the range.
FixGoodEnd(verdict) == IF verdict # BisectGood THEN None ELSE commit

CommitRangeForFix ==
    /\ pc = "range"
    /\ fix
    /\ \E sa \in SwitchAnswers(head) :
        LET switchOK == sa.switchOK
            tr == test(head, sa.t.late, sa.t.b, sa.t.p)
            ok == switchOK /\ tr.err = "nil"
            rs == <<tr.res>>
            g == FixGoodEnd(tr.res.verdict)
            fatal == validateCommitRange(head, g, rs)
            proceed == ok /\ fatal = NoOutcome
        IN /\ tree' = IF switchOK THEN head ELSE tree
           /\ lastSwitch' = [to |-> head, ok |-> switchOK]
           /\ numTests' = IF switchOK THEN tr.numTests ELSE numTests
           /\ flaky' = IF switchOK THEN tr.flaky ELSE flaky
           /\ last' = IF switchOK THEN Record("range", head, kernelConfig, tr, tr.res.verdict)
                      ELSE last
           /\ results1' = IF ok THEN rs ELSE <<>>
           /\ bad' = IF ok THEN head ELSE None
           /\ good' = IF ok THEN g ELSE None
           /\ results' = IF proceed THEN InitialResults(rs) ELSE results
           /\ obad' = IF proceed THEN head ELSE obad
           /\ ogood' = IF proceed THEN g ELSE ogood
           /\ pc' = IF proceed THEN "oracle" ELSE "exit"
           /\ outcome' = IF ~switchOK THEN Failure("error", "SwitchCommit")
                         ELSE IF tr.err # "nil" THEN TestFailure(tr.err)
                         ELSE fatal
    /\ UNCHANGED <<noopPass, timeout, fix, baseline, kcommit, titleRev, pure, intro, fixedAt, head,
                   commit, kernelConfig, testRes, testResults, minCalls, tags,
                   oskip, gateVerdict, minimized>>

\* The release tags before the starting commit, most recent first.
RECURSIVE Descending(_)
Descending(S) ==
    IF S = {} THEN <<>>
    ELSE LET m == CHOOSE x \in S : \A y \in S : y <= x
         IN <<m>> \o Descending(S \ {m})

\* env.commitRangeForCause, up to the loop over the tags.
PreviousReleaseTags ==
    /\ pc = "range"
    /\ ~fix
    /\ \E ok \in Oks, T \in SUBSET {r \in Revs : r < kcommit} :
        LET go == ok /\ T # {} IN
        /\ tags' = IF ok THEN Descending(T) ELSE <<>>
        /\ bad' = IF go THEN commit ELSE None
        /\ pc' = IF go THEN "walk" ELSE "exit"
        /\ outcome' = IF go THEN outcome
                      ELSE IF ok THEN Failure("error", "no release tags before this commit")
                      ELSE Failure("error", "PreviousReleaseTags")
    /\ UNCHANGED <<noopPass, timeout, fix, baseline, kcommit, titleRev, pure, intro, fixedAt, tree, head,
                   commit, kernelConfig, numTests, flaky, testRes, testResults,
                   minCalls, results1, good, results, obad, ogood, oskip,
                   last, lastSwitch, gateVerdict, minimized>>

\* Mutant: lastBad stays the starting commit.
CauseLastBadKept(lastBad, verdict, com) == lastBad

\* Mutant: a tag that could not be tested becomes the bad end too.
CauseLastBadOrSkip(lastBad, verdict, com) == IF verdict # BisectGood THEN com ELSE lastBad

\* env.commitRangeForCause: lastBad after a tag was tested.
CauseLastBad(lastBad, verdict, com) == IF verdict = BisectBad THEN com ELSE lastBad

\* env.commitRangeForCause: one round of the loop over the tags, and, when the
\* loop ends, what commitRange and bisect do with the range.
CommitRangeForCause ==
    /\ pc = "walk"
    /\ \E sa \in SwitchAnswers(tags[Len(results1) + 1]) :
        LET switchOK == sa.switchOK
            tag == tags[Len(results1) + 1]
            tr == test(tag, sa.t.late, sa.t.b, sa.t.p)
            ok == switchOK /\ tr.err = "nil"
            rs == Append(results1, tr.res)
            found == tr.res.verdict = BisectGood
            ended == found \/ Len(rs) = Len(tags)
            lastBad == CauseLastBad(bad, tr.res.verdict, tag)
            g == IF found THEN tag ELSE None
            fatal == validateCommitRange(lastBad, g, rs)
            proceed == ok /\ ended /\ fatal = NoOutcome
        IN /\ tree' = IF switchOK THEN tag ELSE tree
           /\ lastSwitch' = [to |-> tag, ok |-> switchOK]
           /\ numTests' = IF switchOK THEN tr.numTests ELSE numTests
           /\ flaky' = IF switchOK THEN tr.flaky ELSE flaky
           /\ last' = IF switchOK THEN Record("range", tag, kernelConfig, tr, tr.res.verdict)
                      ELSE last
           /\ results1' = IF ok THEN rs ELSE <<>>
           /\ bad' = IF ok THEN lastBad ELSE None
           /\ good' = IF ok THEN g ELSE None
           /\ results' = IF proceed THEN InitialResults(rs) ELSE results
           /\ obad' = IF proceed THEN lastBad ELSE obad
           /\ ogood' = IF proceed THEN g ELSE ogood
           /\ pc' = IF ~ok THEN "exit"
                    ELSE IF ~ended THEN "walk"
                    ELSE IF proceed THEN "oracle" ELSE "exit"
           /\ outcome' = IF ~switchOK THEN Failure("error", "SwitchCommit")
                         ELSE IF tr.err # "nil" THEN TestFailure(tr.err)
                         ELSE IF ended THEN fatal ELSE outcome
    /\ UNCHANGED <<noopPass, timeout, fix, baseline, kcommit, titleRev, pure, intro, fixedAt, head,
                   commit, kernelConfig, testRes, testResults, minCalls, tags,
                   oskip, gateVerdict, minimized>>

----------------------------------------------------------------------------
\* env.bisect: the bisect oracle and its predicate.

\* Mutant: no flip in fix mode.
PredNoFlip(verdict) == verdict

\* Mutant: the flip in both modes.
PredFlipAlways(verdict) ==
    IF verdict = BisectBad THEN BisectGood
    ELSE IF verdict = BisectGood THEN BisectBad
    ELSE verdict

\* pred: the verdict in the polarity of the mode.
PredFlip(verdict) ==
    IF fix THEN (IF verdict = BisectBad THEN BisectGood
                 ELSE IF verdict = BisectGood THEN BisectBad
                 ELSE verdict)
    ELSE verdict

\* pred, after env.test() answered res: the *testResult stored in results and the
\* verdict returned to the oracle.
pred(res) ==
    LET testRes1 == [res EXCEPT !.verdict = PredFlip(res.verdict)]
    IN [stored |-> testRes1, ret |-> testRes1.verdict]

\* The results map: empty, as it is before env.bisect() makes it and after
\* env.bisect() has returned.
NoResults == [r \in Revs |-> NoRes]

(***************************************************************************)
(* The oracle (vcs.Bisecter.Bisect) is not part of the driver.  It is      *)
(* modelled as the search the interface promises: it keeps a bad and a     *)
(* good end, checks out a revision between them that it has not tried,     *)
(* asks the predicate, and moves the bad end (bad), the good end (good) or *)
(* sets the revision aside (skip); an error of the predicate ends the      *)
(* search with that error.  When nothing is left to try it answers the bad *)
(* end, together with the revisions set aside between the ends.            *)
(***************************************************************************)
Untried == {r \in Revs : ogood < r /\ r < obad /\ r \notin oskip}

OracleCommits == <<obad>> \o Descending({r \in oskip : ogood < r /\ r < obad})

\* com.Parents of the commit the oracle answers: None is a commit without a
\* single parent (a root, a merge), a revision is the one parent.  The parent is
\* the previous revision, or an older one when the commit was merged from a
\* branch that left the history earlier.
Parents(com) ==
    IF pure THEN {com - 1}
    ELSE {None} \cup {r \in Revs : r < com}

\* The signatures env.build() may give for the parent of the culprit: those of
\* the tested revisions and one that no tested revision has.
ParentSignatures == Signatures \cup {"B"}

\* env.build() outcomes in detectNoopChange.
ParentBuildOutcomes ==
    IF pure THEN BuildOutcomes
    ELSE {b \in BuildOutcomes : b.kind # "ok"}
         \cup {[kind |-> "ok", sign |-> s] : s \in ParentSignatures}

\* What Bisect may answer (commits, no commit at all, an error), with the
\* parent of the first commit and the answers of IsRelease, SwitchCommit and
\* env.build() that follow an answer of commits.
OracleAnswers ==
    LET built == {b \in BuildOutcomes : b.kind = "ok"}
        any == CHOOSE b \in built : TRUE
        after == {[switchOK |-> FALSE, b |-> any] : ok \in Oks \ {TRUE}}
                 \cup {[switchOK |-> TRUE, b |-> b] : b \in ParentBuildOutcomes}
    IN {[ans |-> a, parent |-> None, releaseOK |-> TRUE, switchOK |-> TRUE, b |-> any] :
            a \in IF pure THEN {} ELSE {"empty", "error"}}
       \cup {[ans |-> "commits", parent |-> p, releaseOK |-> ok,
               switchOK |-> x.switchOK, b |-> x.b] :
                p \in Parents(obad), ok \in Oks, x \in after}

\* One round of the oracle: a checkout and a call of pred.
Pred ==
    /\ pc = "oracle"
    /\ \E r \in Untried : \E sa \in SwitchAnswers(r) :
        LET switchOK == sa.switchOK
            tr == test(r, sa.t.late, sa.t.b, sa.t.p)
            ok == switchOK /\ tr.err = "nil"
            pr == pred(tr.res)
        IN /\ tree' = IF switchOK THEN r ELSE tree
           /\ lastSwitch' = [to |-> r, ok |-> switchOK]
           /\ numTests' = IF switchOK THEN tr.numTests ELSE numTests
           /\ flaky' = IF switchOK THEN tr.flaky ELSE flaky
           /\ last' = IF switchOK THEN Record("oracle", r, kernelConfig, tr, pr.ret)
                      ELSE last
           /\ results' = IF ok THEN [results EXCEPT ![tr.res.com] = pr.stored]
                         ELSE NoResults
           /\ obad' = IF ~ok THEN None ELSE IF pr.ret = BisectBad THEN r ELSE obad
           /\ ogood' = IF ~ok THEN None ELSE IF pr.ret = BisectGood THEN r ELSE ogood
           /\ oskip' = IF ~ok THEN {} ELSE IF pr.ret = BisectSkip THEN oskip \cup {r} ELSE oskip
           /\ pc' = IF ok THEN "oracle" ELSE "exit"
           /\ outcome' = IF ~switchOK THEN Failure("error", "Bisect")
                         ELSE IF tr.err # "nil" THEN TestFailure(tr.err)
                         ELSE outcome
    /\ UNCHANGED <<noopPass, timeout, fix, baseline, kcommit, titleRev, pure, intro, fixedAt, head,
                   commit, kernelConfig, testRes, testResults, minCalls, tags,
                   results1, bad, good, gateVerdict, minimized>>

\* Mutant: a parent that builds is taken to have the culprit's signature.
detectNoopChangeBuiltIsNoop(com, parent, switchOK, b) ==
    LET testRes_ == results[com]
    IN IF testRes_.kernelSign = "" \/ parent = None THEN
           [noop |-> FALSE, switched |-> FALSE, ok |-> FALSE, parent |-> parent]
       ELSE IF results[parent] # NoRes THEN
           [noop |-> testRes_.kernelSign = results[parent].kernelSign,
            switched |-> FALSE, ok |-> FALSE, parent |-> parent]
       ELSE IF ~switchOK \/ b.kind # "ok" THEN
           [noop |-> FALSE, switched |-> TRUE, ok |-> switchOK, parent |-> parent]
       ELSE [noop |-> TRUE, switched |-> TRUE, ok |-> TRUE, parent |-> parent]

\* env.detectNoopChange for the culprit com with the one parent parent (None:
\* len(com.Parents) != 1), with the answers of SwitchCommit and env.build() on
\* the parent: the flag, whether the parent was checked out, whether it was built.
detectNoopChange(com, parent, switchOK, b) ==
    LET testRes_ == results[com]
    IN IF testRes_.kernelSign = "" \/ parent = None THEN
           [noop |-> FALSE, switched |-> FALSE, ok |-> FALSE, parent |-> parent]
       ELSE IF results[parent] # NoRes THEN
           [noop |-> testRes_.kernelSign = results[parent].kernelSign,
            switched |-> FALSE, ok |-> FALSE, parent |-> parent]
       ELSE IF ~switchOK \/ b.kind # "ok" THEN
           [noop |-> FALSE, switched |-> TRUE, ok |-> switchOK, parent |-> parent]
       ELSE [noop |-> testRes_.kernelSign = b.sign,
             switched |-> TRUE, ok |-> TRUE, parent |-> parent]

\* env.bisect: the Result for the commits the oracle answered.
Classify(commits, isRelease, noopChange) ==
    LET res == [NoOutcome EXCEPT !.kind = "result", !.Commits = commits,
                                 !.Config = kernelConfig]
    IN IF Len(commits) = 1 THEN
           IF results[commits[1]] = NoRes
           THEN Failure("error", "no result for culprit commit")
           ELSE [res EXCEPT !.Report = results[commits[1]].rep,
                            !.IsRelease = isRelease, !.NoopChange = noopChange]
       ELSE res

\* vcs.Bisecter.IsRelease: the release tags are the releases.
IsRelease(h) == \E i \in 1..Len(tags) : tags[i] = h

\* The oracle answers, and env.bisect builds its Result.
Bisect ==
    /\ pc = "oracle"
    /\ Untried = {}
    /\ \E oa \in OracleAnswers :
        LET ans == oa.ans
            switchOK == oa.switchOK
            b == oa.b
            commits == IF ans = "commits" THEN OracleCommits ELSE <<>>
            isRelease == oa.releaseOK /\ IsRelease(commits[1])
            single == ans # "error" /\ Len(commits) = 1 /\ results[commits[1]] # NoRes
            nc == detectNoopChange(commits[1], oa.parent, switchOK, b)
            moved == single /\ nc.switched
            built == moved /\ nc.ok
        IN /\ outcome' = IF ans = "error" THEN Failure("error", "Bisect")
                         ELSE Classify(commits, isRelease, single /\ nc.noop)
           /\ tree' = IF moved /\ nc.ok THEN nc.parent ELSE tree
           /\ lastSwitch' = IF moved THEN [to |-> nc.parent, ok |-> nc.ok] ELSE lastSwitch
           /\ noopPass' = IF single
                          THEN [parent |-> oa.parent,
                                build |-> IF built THEN b.kind ELSE "none",
                                sign |-> IF built THEN b.sign ELSE ""]
                          ELSE NoNoopPass
    /\ pc' = "exit"
    /\ results' = NoResults
    /\ obad' = None
    /\ ogood' = None
    /\ oskip' = {}
    /\ UNCHANGED <<timeout, fix, baseline, kcommit, titleRev, pure, intro, fixedAt, head,
                   commit, kernelConfig, numTests, flaky, testRes, testResults,
                   minCalls, tags, results1, bad, good,
                   last, gateVerdict, minimized>>

----------------------------------------------------------------------------
\* runImpl after env.bisect() returned: the log of the result, and the deferred
\* env.repo.SwitchCommit(head.Hash).  The locals of env.bisect() are gone.

\* Mutant: the deferred call switches to the starting commit.
DeferredSwitchToStart == commit

\* The revision the deferred call switches to.
DeferredSwitch == head

\* runImpl's log of a Result without Commits reads res.Commit.Title.
LogDereferencesNil(res) ==
    res.kind = "result" /\ Len(res.Commits) = 0 /\ res.Commit = None

Return ==
    /\ pc = "exit"
    /\ \E switchOK \in Oks :
        /\ tree' = IF switchOK THEN DeferredSwitch ELSE tree
        /\ lastSwitch' = [to |-> DeferredSwitch, ok |-> switchOK]
    /\ outcome' = IF LogDereferencesNil(outcome) THEN Failure("panic", "nil dereference")
                  ELSE outcome
    /\ pc' = "done"
    /\ testRes' = NoRes
    /\ testResults' = [c \in Configs |-> NoRes]
    /\ minCalls' = 0
    /\ tags' = <<>>
    /\ results1' = <<>>
    /\ bad' = None
    /\ good' = None
    /\ noopPass' = NoNoopPass
    /\ UNCHANGED <<timeout, fix, baseline, kcommit, titleRev, pure, intro, fixedAt, head,
                   commit, kernelConfig, numTests, flaky, results, obad, ogood, oskip,
                   last, gateVerdict, minimized>>

----------------------------------------------------------------------------
Next ==
    \/ RunImpl
    \/ Resolve
    \/ Gate
    \/ PredMinimize
    \/ MinimizeReturn
    \/ CommitRangeForFix
    \/ PreviousReleaseTags
    \/ CommitRangeForCause
    \/ Pred
    \/ Bisect
    \/ Return

Spec == Init /\ [][Next]_vars

SpecPure == InitPure /\ [][Next]_vars

----------------------------------------------------------------------------
\* The properties.

Ended == pc \in {"exit", "done"}

\* The verdict of the other polarity.
Opposite(verdict) ==
    CASE verdict = BisectBad -> BisectGood
      [] verdict = BisectGood -> BisectBad
      [] OTHER -> verdict

\* C1: in fix mode the verdict the oracle predicate stores in results for the
\* revision it just tested is the verdict the test harness gave (crashed: bad,
\* clean: good).
C1_StoredVerdictNatural ==
    (fix /\ pc = "oracle" /\ last.site = "oracle" /\ last.err = "nil")
        => results[last.rev].verdict = last.verdict

C3_ReproducibilityGate ==
    /\ gateVerdict \in {BisectGood, BisectSkip}
        => /\ Ended
           /\ outcome.kind = "error"
           /\ outcome.msg = "the crash wasn't reproduced on the original commit"
           /\ last.site = "gate"
           /\ minimized.config = None
           /\ minCalls = 0
           /\ tags = <<>>
           /\ results1 = <<>>
           /\ obad = None
    /\ (\/ pc \in {"minimize", "range", "walk", "oracle"}
        \/ last.site \in {"minimize", "range", "oracle"}
        \/ minimized.config # None
        \/ tags # <<>>
        \/ obad # None)
        => gateVerdict = BisectBad

\* The build failed at the gate and the session ended.
C3_Witness ==
    /\ pc = "done"
    /\ gateVerdict = BisectSkip
    /\ last.asked = 0
    /\ outcome.kind = "error"

\* The session found exactly the commit c.
Conclusive(c) == outcome.kind = "result" /\ outcome.Commits = <<c>>

\* C4 (amended): in the pure world a fix-mode session returns the fixing commit,
\* and a cause-mode session returns the introducing commit if a release tag
\* older than the introducing commit precedes the starting revision.
C4_PolaritySymmetry ==
    pc = "exit"
        => /\ fix => Conclusive(fixedAt)
           /\ (~fix /\ \E i \in 1..Len(tags) : tags[i] < intro) => Conclusive(intro)

\* C4 (as claimed): ... and a cause-mode session returns the introducing commit.
C4_AnyHistory ==
    pc = "exit" => Conclusive(IF fix THEN fixedAt ELSE intro)

\* A fix-mode session whose oracle had to ask the predicate.
C4_Witness ==
    /\ pc = "exit"
    /\ fix
    /\ last.site = "oracle"
    /\ last.verdict = BisectGood
    /\ Conclusive(fixedAt)

\* The config is the full config, or the minimizer's answer with a recorded bad
\* verdict.
ConfigVerified(c) ==
    c = FullConfig \/ (c = minimized.config /\ minimized.verdict = BisectBad)

\* C5: the active config of every range-finder test, of every oracle test and of
\* the Result is the full config or a minimizer answer with a recorded bad verdict.
C5_ActiveConfigVerified ==
    /\ last.site \in {"range", "oracle"} => ConfigVerified(last.config)
    /\ outcome.kind = "result" => ConfigVerified(outcome.Config)

\* C6: the oracle predicate answers the opposite verdict in fix mode and the
\* harness verdict in cause mode; the gate, the range finder and the terminal
\* classification go by the harness verdict in both modes.
C6_FlipOnlyAtOracle ==
    /\ (last.site = "oracle" /\ last.err = "nil")
        => last.ret = IF fix THEN Opposite(last.verdict) ELSE last.verdict
    /\ outcome.msg = "the crash wasn't reproduced on the original commit"
        <=> gateVerdict \in {BisectGood, BisectSkip}
    /\ (pc \in {"walk", "oracle", "exit"} /\ results1 # <<>>
            /\ last.site = "range" /\ last.err = "nil")
        => results1[Len(results1)].verdict = last.verdict
    /\ (fix /\ last.site = "range" /\ last.err = "nil")
        => (last.verdict \in {BisectBad, BisectSkip}
                <=> (outcome.kind = "result" /\ outcome.Commit = head))

\* In fix mode the harness said good and the oracle was told bad.
C6_Witness ==
    /\ fix
    /\ last.site = "oracle"
    /\ last.verdict = BisectGood
    /\ last.ret = BisectBad

\* C7: when the build succeeded and the runner returned trials, the test cycle
\* fails with an infra error exactly if more than half of the trials were infra
\* failures; a failed runner call is an infra error too; and an infra error ends
\* the session with an InfraError and no Result.
C7_InfraStorm ==
    /\ last.runner = "ok" => (2 * last.ninfra > last.total <=> last.err = "infra")
    /\ last.runner = "failed" => last.err = "infra"
    /\ last.err = "infra" => Ended /\ outcome.kind = "infra"

\* 6 of 10 trials were infra failures, one crashed.
C7_Witness ==
    /\ pc = "done"
    /\ last.total = 10
    /\ last.ninfra = 6
    /\ last.nbad >= 1
    /\ outcome.kind = "infra"

\* C8 (amended): a test cycle with a crashing trial, fewer crashing than clean
\* trials and no more than half of the trials infra failures has the verdict bad
\* and sets flaky; flaky is never cleared; and with flaky set every test cycle
\* that reaches the trials asks for 20.
C8_Flaky ==
    [][/\ flaky => flaky'
       /\ last'.seq # last.seq
            => /\ (/\ last'.runner = "ok"
                   /\ last'.nbad >= 1
                   /\ last'.nbad < last'.ngood
                   /\ 2 * last'.ninfra <= last'.total)
                    => last'.verdict = BisectBad /\ flaky'
               /\ (flaky /\ last'.asked > 0) => last'.asked = 20]_vars

\* C8 (as claimed): a test cycle with a crashing trial and fewer crashing than
\* clean trials has the verdict bad and sets flaky.
C8_AnyTally ==
    (last.runner = "ok" /\ last.nbad >= 1 /\ last.nbad < last.ngood)
        => last.verdict = BisectBad /\ flaky

\* 3 of 10 trials crashed, 7 were clean.
C8_Witness ==
    /\ last.total = 10
    /\ last.nbad = 3
    /\ last.ngood = 7
    /\ last.verdict = BisectBad
    /\ flaky

\* C9: when the last revision the range finder tested is bad, or skip in fix
\* mode, the session returns a Result without Commits, with that revision as
\* Commit, its report as Report and the active config, and the oracle is not
\* called; when it is skip in cause mode the session fails.
C9_TerminalClassification ==
    (pc \in {"oracle", "exit"} /\ results1 # <<>>)
        => LET finalResult == results1[Len(results1)] IN
           /\ (\/ finalResult.verdict = BisectBad
               \/ finalResult.verdict = BisectSkip /\ fix)
                => /\ pc = "exit"
                   /\ outcome.kind = "result"
                   /\ outcome.Commits = <<>>
                   /\ outcome.Commit = finalResult.com
                   /\ outcome.Commit = last.rev
                   /\ outcome.Report = finalResult.rep
                   /\ outcome.Report.at = finalResult.com
                   /\ outcome.Report.kind =
                        IF finalResult.verdict = BisectBad THEN "crash"
                        ELSE outcome.Report.kind
                   /\ outcome.Report.kind # "nil"
                   /\ outcome.Config = kernelConfig
                   /\ last.site = "range"
           /\ (finalResult.verdict = BisectSkip /\ ~fix)
                => /\ pc = "exit"
                   /\ outcome.kind = "error"
                   /\ last.site = "range"

\* The oldest release tag of a cause bisection crashed, after a newer one did.
C9_Witness ==
    /\ pc = "exit"
    /\ ~fix
    /\ Len(results1) = 2
    /\ results1[2].verdict = BisectBad
    /\ outcome.kind = "result"
    /\ outcome.Commit = results1[2].com

\* C10: a Result with exactly one commit has no Commit; its Report is the crash
\* report of that commit in cause mode and nil in fix mode.
C10_ConclusiveReport ==
    (pc = "exit" /\ outcome.kind = "result" /\ Len(outcome.Commits) = 1)
        => /\ outcome.Commit = None
           /\ outcome.Report = IF fix THEN NoRep ELSE CrashRep(outcome.Commits[1])

\* C11: while the oracle runs, the starting revision, every revision the range
\* finder tested and the revision the predicate tested last have an entry in
\* results, and the entries of the starting revision and of the range finder's
\* revisions are the ones first stored for them.
C11_ResultsKept ==
    pc = "oracle"
        => /\ results[kcommit] = testRes
           /\ \A i \in 1..Len(results1) : results[results1[i].com] = results1[i]
           /\ (last.site = "oracle" /\ last.err = "nil") => results[last.rev] # NoRes

C13_ResolutionIdempotent ==
    /\ kcommit \in Revs
        => \A title \in Titles, titleOK \in BOOLEAN :
              identifyRewrittenCommit(title, TRUE, TRUE, titleOK)
                  = [hash |-> kcommit, err |-> FALSE, read |-> FALSE]
    /\ (pc = "gate" /\ titleRev = Unread) => kcommit \in Revs /\ tree = kcommit

\* The starting hash was contained and the gate is about to test it.
C13_Witness ==
    /\ pc = "gate"
    /\ titleRev = Unread
    /\ kcommit \in Revs
    /\ tree = kcommit
    /\ kcommit # Tip

\* The most recently tested entry of rs with verdict bad, or start if there is none.
LastBadOf(rs, start) ==
    LET B == {i \in 1..Len(rs) : rs[i].verdict = BisectBad}
    IN IF B = {} THEN start ELSE rs[CHOOSE i \in B : \A j \in B : j <= i].com

\* C14: in cause mode the range finder tests the release tags in the order
\* supplied, each once; only the tag tested last may be good; the bad end is the
\* most recently tested bad tag, or the starting revision, never a skipped tag;
\* the good end is the good tag; and the oracle starts from these ends.
C14_CauseRange ==
    (~fix /\ pc \in {"walk", "oracle", "exit"} /\ results1 # <<>>)
        => LET k == Len(results1) IN
           /\ k <= Len(tags)
           /\ \A i \in 1..k : results1[i].com = tags[i]
           /\ \A i \in 1..(k - 1) : results1[i].verdict # BisectGood
           /\ \A i \in 1..(Len(tags) - 1) : tags[i] > tags[i + 1]
           /\ bad = LastBadOf(results1, commit)
           /\ \A i \in 1..k : results1[i].verdict = BisectSkip => bad # tags[i]
           /\ good = IF results1[k].verdict = BisectGood THEN tags[k] ELSE None
           /\ pc = "walk" => results1[k].verdict # BisectGood /\ k < Len(tags)
           /\ (pc = "oracle" /\ last.site = "range")
                => /\ results1[k].verdict = BisectGood
                   /\ obad = bad
                   /\ ogood = good

\* A skipped tag, then a good one, and the starting revision as the bad end.
C14_Witness ==
    /\ ~fix
    /\ pc = "oracle"
    /\ last.site = "range"
    /\ Len(results1) = 2
    /\ results1[1].verdict = BisectSkip
    /\ results1[2].verdict = BisectGood
    /\ obad = commit
    /\ ogood = tags[2]

\* C15: in fix mode the range finder checks out and tests the recorded head, once;
\* the oracle is called exactly if that verdict is good, and then from bad = head
\* and good = the starting revision; in both modes the oracle has a good end.
C15_FixRange ==
    /\ pc = "oracle" => obad \in Revs /\ ogood \in Revs /\ good \in Revs
    /\ (fix /\ last.site = "range")
        => /\ last.rev = head
           /\ ~baseline => last.seq = 2
    /\ (fix /\ pc \in {"oracle", "exit"} /\ results1 # <<>>)
        => LET verdict == results1[1].verdict IN
           /\ Len(results1) = 1
           /\ results1[1].com = head
           /\ bad = head
           /\ good = IF verdict = BisectGood THEN commit ELSE None
           /\ verdict # BisectGood
                => /\ pc = "exit"
                   /\ last.site = "range"
                   /\ outcome.kind = "result"
                   /\ outcome.Commits = <<>>
                   /\ outcome.Commit = head
           /\ (verdict = BisectGood /\ pc = "exit") => outcome.Commit = None
           /\ pc = "oracle" => verdict = BisectGood
           /\ (pc = "oracle" /\ last.site = "range") => obad = head /\ ogood = commit

\* Head is good and the oracle is about to search between the starting revision
\* and head.
C15_Witness ==
    /\ fix
    /\ pc = "oracle"
    /\ last.site = "range"
    /\ obad = head
    /\ ogood = commit
    /\ commit < head
    /\ Untried # {}

\* The kinds of trial results, and how often kind k occurs in the trials s.
TrialKinds == {"ok", "infra", "boot", "basic", "crash", "other"}
Occurrences(s, k) == Cardinality({i \in 1..Len(s) : s[i] = k})

\* The verdict the counts of crashing and clean trials call for.
VerdictOf(nbad, ngood) ==
    IF nbad >= 1 THEN BisectBad ELSE IF ngood >= 1 THEN BisectGood ELSE BisectSkip

\* The report that goes with a verdict on revision h.
ReportOf(verdict, h) ==
    CASE verdict = BisectBad -> CrashRep(h)
      [] verdict = BisectGood -> NoRep
      [] OTHER -> TestFailRep(h)

\* C16: crashing trials count as bad, clean ones as good, boot and basic-test
\* failures as neither; a test cycle that ran its trials with no more than half of
\* them infra failures is bad if a trial crashed (report: the crash), else good
\* if a trial was clean (no report), else skip (report: failed testing
\* reproducer on the revision).  The counting is a function of the trials alone,
\* so it is evaluated once, where the session starts.
C16_VerdictClassification ==
    /\ pc = "runImpl"
        => \A s \in [1..2 -> TrialKinds] :
              LET t == processResults(s) IN
              /\ t.bad = Occurrences(s, "crash")
              /\ t.good = Occurrences(s, "ok")
              /\ t.infra = Occurrences(s, "infra") + Occurrences(s, "other")
              /\ t.rep = "crash" <=> t.bad > 0
    /\ (last.runner = "ok" /\ 2 * last.ninfra <= last.total)
        => /\ last.err = "nil"
           /\ last.verdict = VerdictOf(last.nbad, last.ngood)
           /\ (last.site = "range" /\ pc \in {"walk", "oracle", "exit"} /\ results1 # <<>>)
                => /\ results1[Len(results1)].com = last.rev
                   /\ results1[Len(results1)].rep = ReportOf(last.verdict, last.rev)
           /\ (last.site = "oracle" /\ pc = "oracle")
                => results[last.rev].rep = ReportOf(last.verdict, last.rev)

\* Every trial of the head test of a fix bisection failed to boot or failed the
\* basic test.
C16_Witness ==
    /\ pc = "exit"
    /\ last.site = "range"
    /\ last.runner = "ok"
    /\ last.total = 10
    /\ last.nbad = 0
    /\ last.ngood = 0
    /\ last.ninfra = 0
    /\ last.verdict = BisectSkip
    /\ outcome.Report = TestFailRep(last.rev)

\* C17: a test cycle that reaches the trials asks for 20 of them if flaky is set
\* or no earlier cycle reached the trials, and for 10 otherwise, and counts
\* itself in numTests; so after a passed gate, with flaky unset, every later
\* cycle asks for 10.
C17_TrialCount ==
    [][last'.seq # last.seq
        => /\ last'.asked > 0
                => /\ last'.asked = IF flaky \/ numTests = 0 THEN 20 ELSE 10
                   /\ numTests' = numTests + 1
           /\ last'.asked = 0 => numTests' = numTests
           /\ (gateVerdict' = BisectBad /\ ~flaky' /\ last'.site # "gate" /\ last'.asked > 0)
                => last'.asked = 10]_vars

\* The range finder asked for 10 trials after a gate that was not flaky.
C17_Witness ==
    /\ gateVerdict = BisectBad
    /\ ~flaky
    /\ last.site = "range"
    /\ last.asked = 10
    /\ last.total = 10
    /\ numTests = 2

\* A report whose title names the build failure on revision h.
BuildFailureAt(h) == [kind |-> "failed building", at |-> h]

\* C18: a test cycle whose build failed on a known revision returns skip, with
\* the build failure as report and no error, asks for no trials and leaves
\* numTests and flaky as they were; in the oracle predicate it answers skip, the
\* result is stored and the oracle goes on.
C18_BuildFailure ==
    [][(last'.seq # last.seq /\ last'.build = "fail")
        => /\ last'.err = "nil"
           /\ last'.verdict = BisectSkip
           /\ last'.asked = 0
           /\ last'.runner = "none"
           /\ numTests' = numTests
           /\ flaky' = flaky
           /\ last'.site = "gate" => testRes'.rep = BuildFailureAt(last'.rev)
           /\ last'.site = "range"
                => results1'[Len(results1')].rep = BuildFailureAt(last'.rev)
           /\ last'.site = "oracle"
                => /\ last'.ret = BisectSkip
                   /\ pc' = "oracle"
                   /\ outcome' = outcome
                   /\ results'[last'.rev].verdict = BisectSkip
                   /\ results'[last'.rev].rep = BuildFailureAt(last'.rev)
                   /\ oskip' = oskip \cup {last'.rev}
                   /\ obad' = obad /\ ogood' = ogood]_vars

\* The build failed in the oracle predicate and the oracle goes on.
C18_Witness ==
    /\ pc = "oracle"
    /\ last.site = "oracle"
    /\ last.build = "fail"
    /\ last.ret = BisectSkip
    /\ last.rev \in oskip
    /\ results[last.rev].rep = BuildFailureAt(last.rev)

\* C19: a Result without Commits names the revision where the search stopped in
\* Commit, so runImpl's log of it never reads the title of an unset Commit.
C19_CommitSet ==
    /\ (outcome.kind = "result" /\ outcome.Commits = <<>>) => outcome.Commit \in Revs
    /\ outcome.kind # "panic"

\* C20: when the oracle answers one commit and env.bisect returns a Result,
\* NoopChange is true iff the culprit has one parent, the signature recorded for
\* the culprit is not empty and equals the parent's, which is the one in the
\* results map if the parent was tested and else the one of a build-only pass
\* (checkout of the parent and build, no trial, numTests unchanged); a failed
\* checkout or build in that pass leaves NoopChange false, and the Result names
\* the oracle's culprit either way and is what runImpl returns.
C20_NoopChange ==
    [][/\ (pc = "exit" /\ pc' = "done" /\ outcome.kind = "result"
            /\ Len(outcome.Commits) = 1) => outcome' = outcome
       /\ (pc = "oracle" /\ pc' = "exit" /\ outcome'.kind = "result"
            /\ Len(outcome'.Commits) = 1)
        => LET com == outcome'.Commits[1]
               parent == noopPass'.parent
               sign == results[com].kernelSign
               asked == parent # None /\ sign # ""
               tested == asked /\ results[parent] # NoRes
               buildOnly == asked /\ ~tested
               builtOK == /\ buildOnly
                          /\ lastSwitch' = [to |-> parent, ok |-> TRUE]
                          /\ tree' = parent
                          /\ noopPass'.build = "ok"
               parentSign == IF tested THEN results[parent].kernelSign
                             ELSE noopPass'.sign
           IN /\ outcome'.NoopChange
                    <=> (asked /\ (tested \/ builtOK) /\ sign = parentSign)
              /\ com = obad
              /\ outcome'.Report = results[com].rep
              /\ numTests' = numTests
              /\ last' = last
              /\ buildOnly => lastSwitch'.to = parent
              /\ ~buildOnly => /\ tree' = tree
                               /\ lastSwitch' = lastSwitch
                               /\ noopPass'.build = "none"]_vars

\* A culprit whose untested parent was checked out and built into the
\* culprit's signature.
C20_Witness ==
    /\ pc = "exit"
    /\ outcome.kind = "result"
    /\ outcome.NoopChange
    /\ noopPass.build = "ok"
    /\ lastSwitch.to = noopPass.parent

\* C21: the title is read only when the branch does not contain the stored
\* starting hash.  If the title is empty or no commit has it, the session ends
\* with an error, without a build or a test; if the session goes on, the commit
\* found by the title has replaced the starting hash, it is the revision checked
\* out for the gate, the one the gate tests, and the key of the starting result.
C21_RewrittenCommit ==
    /\ titleRev \in {NoTitle, None}
        => /\ Ended
           /\ outcome.kind = "error"
           /\ outcome.msg = "not reachable"
           /\ kcommit = Gone
           /\ last = NoLast
           /\ numTests = 0
           /\ noopPass = NoNoopPass
           /\ results = NoResults
    /\ outcome.msg = "not reachable"
        => /\ Ended
           /\ last = NoLast
           /\ numTests = 0
    /\ (titleRev \in Revs /\ outcome.msg # "not reachable")
        => /\ kcommit = titleRev
           /\ lastSwitch.to = kcommit \/ pc # "exit" \/ last # NoLast
           /\ pc = "gate" => (tree = kcommit /\ lastSwitch = [to |-> kcommit, ok |-> TRUE]
                               /\ last = NoLast)
           /\ last.site = "gate" => (last.rev = kcommit /\ commit = kcommit)
           /\ pc \in {"minimize", "range", "walk"} => testRes.com = kcommit
           /\ pc = "oracle" => (results[kcommit] # NoRes /\ results[kcommit].com = kcommit)

\* The starting hash was found by its title and the oracle is at work on the
\* results map that holds the starting result under the hash found.
C21_Witness ==
    /\ titleRev \in Revs
    /\ pc = "oracle"
    /\ results[kcommit] # NoRes
    /\ kcommit = titleRev
    /\ gateVerdict = BisectBad

\* C22: every test cycle (gate, minimization predicate, range finder, oracle
\* predicate) reads the clock first.  A cycle that finds a non-zero budget
\* exceeded builds nothing, runs no trial, leaves numTests and flaky alone, and
\* the session ends with the error "bisection is taking too long" and no
\* Result; a session with a zero budget never ends so; a cycle that starts
\* within the budget runs its build and, if the kernel was built, its trials.
C22_Timeout ==
    [][/\ last'.seq # last.seq
            => /\ last'.site \in {"gate", "minimize", "range", "oracle"}
               /\ last'.err = "timeout"
                    => /\ timeout # 0
                       /\ last'.build = "none"
                       /\ last'.asked = 0
                       /\ last'.total = 0
                       /\ last'.verdict = "none"
                       /\ numTests' = numTests
                       /\ flaky' = flaky
                       /\ pc' = "exit"
                       /\ outcome' = Failure("error", "bisection is taking too long")
               /\ last'.err # "timeout"
                    => /\ last'.build # "none"
                       /\ last'.build = "ok"
                            => (last'.asked > 0 /\ last'.runner # "none"
                                /\ numTests' = numTests + 1)
       /\ (last.err = "timeout" /\ pc = "exit")
            => /\ last' = last
               /\ pc' = "done"
               /\ outcome' = outcome
               /\ outcome'.kind = "error"
               /\ outcome'.Commits = <<>>
               /\ outcome'.Commit = None]_vars

\* The oracle predicate found the budget exceeded after the gate and the range
\* finder had run their tests.
C22_Witness ==
    /\ pc = "done"
    /\ timeout # 0
    /\ last.site = "oracle"
    /\ last.err = "timeout"
    /\ last.seq > 2
    /\ numTests = last.seq - 1
    /\ outcome.kind = "error"

====
